---- MODULE Spec2Model ----
(***************************************************************************)
(* Model of winit-input-map's InputMap (src/src/input.rs): the binding     *)
(* table, the per-action records and the per-event update rules, together  *)
(* with the frame reset init().                                            *)
(*                                                                         *)
(* Intensities are f32 in the source.  They are represented here in fixed  *)
(* point, in tenths: One = 1.0, press_sensitivity 5 = 0.5, mouse_scale     *)
(* 1 = 0.1.  A raw mouse/scroll delta is a whole number, so that           *)
(* delta * mouse_scale is again a number of tenths.                        *)
(***************************************************************************)
EXTENDS Integers, Sequences, FiniteSets, TLC

(***************************************************************************)
(* Input codes (crate::input_code, an opaque hashable identity).           *)
(***************************************************************************)
Code(kind, name, sign, id) == [kind |-> kind, name |-> name, sign |-> sign, id |-> id]

KeyCode(k)      == Code("Key", k, "None", "Any")
MouseButton(b)  == Code("MouseButton", b, "None", "Any")
MouseMoveX(s)   == Code("MouseMoveX", "None", s, "Any")
MouseMoveY(s)   == Code("MouseMoveY", "None", s, "Any")
MouseScroll(s)  == Code("MouseScroll", "None", s, "Any")
MouseScrollX(s) == Code("MouseScrollX", "None", s, "Any")
\* GamepadInput::from(button): the device-agnostic code of a gamepad button
GamepadButton(b) == Code("GamepadButton", b, "None", "Any")
\* GamepadInput::with_id / InputCode::set_gamepad_id: the same code scoped to device id
with_id(code, id) == [code EXCEPT !.id = id]
gamepad_axis_pos(axis) == Code("GamepadAxis", axis, "Pos", "Any")
gamepad_axis_neg(axis) == Code("GamepadAxis", axis, "Neg", "Any")

Keys         == {"KeyW", "ShiftLeft"}
Buttons      == {"Left"}
GamepadIds   == {"Pad0", "Pad1"}
PadButtons   == {"South"}
PadAxes      == {"LeftStickX"}
Signs        == {"Pos", "Neg"}

\* the eight accumulating half-axis codes, in the order init() resets them
ResetCodes ==
  << MouseMoveX("Pos"), MouseMoveX("Neg"), MouseMoveY("Pos"), MouseMoveY("Neg"),
     MouseScroll("Pos"), MouseScroll("Neg"), MouseScrollX("Pos"), MouseScrollX("Neg") >>

Range(s) == {s[i] : i \in DOMAIN s}

AccumCodes == Range(ResetCodes)

PadCodes ==
  LET base == {GamepadButton(b) : b \in PadButtons}
              \cup {gamepad_axis_pos(x) : x \in PadAxes}
              \cup {gamepad_axis_neg(x) : x \in PadAxes}
  IN  base \cup {with_id(c, id) : c \in base, id \in GamepadIds}

Codes ==
  {KeyCode(k) : k \in Keys} \cup {MouseButton(b) : b \in Buttons}
    \cup AccumCodes \cup PadCodes

Actions == {"Forward", "Back", "Jump", "Fire"}

\* Option<T>: None is the empty sequence, Some(x) the one-element sequence
None == << >>

Some(x) == << x >>

\* 1.0f32 in tenths (`is_pressed() as u8 as f32`, and the 1.0 of ButtonPressed)
One == 10

Max(a, b) == IF a >= b THEN a ELSE b

(***************************************************************************)
(* State of one InputMap.                                                  *)
(***************************************************************************)
VARIABLES
  binds,             \* HashMap<InputCode, Vec<F>>: a function on the codes present
  action_val,        \* HashMap<F, (f32, bool, bool)>: a function on the actions with a record
  recently_pressed,  \* Option<InputCode>
  text_typed,        \* Option<String>: None or a sequence of characters
  mouse_scale,
  scroll_scale,
  press_sensitivity,
  last,              \* history: the operation that produced this state
  rebinds            \* the binds this application adds to its running map

vars == << binds, action_val, recently_pressed, text_typed,
           mouse_scale, scroll_scale, press_sensitivity, last, rebinds >>

\* the InputMap value (`self`) as one record, so that methods are operators on it
Self ==
  [ binds |-> binds, action_val |-> action_val,
    recently_pressed |-> recently_pressed, text_typed |-> text_typed,
    mouse_scale |-> mouse_scale, scroll_scale |-> scroll_scale,
    press_sensitivity |-> press_sensitivity ]

\* HashMap::insert
insert(map, key, value) == [k \in DOMAIN map \cup {key} |-> IF k = key THEN value ELSE map[k]]

(***************************************************************************)
(* Queries.                                                                *)
(***************************************************************************)
\* action_val(action): the intensity, 0.0 when there is no record
ActionVal(self, action) ==
  IF action \in DOMAIN self.action_val THEN self.action_val[action][1] ELSE 0

pressing(self, action) == ActionVal(self, action) >= self.press_sensitivity

pressed(self, action) ==
  IF action \in DOMAIN self.action_val THEN self.action_val[action][2] ELSE FALSE

released(self, action) ==
  IF action \in DOMAIN self.action_val THEN self.action_val[action][3] ELSE FALSE

axis(self, pos, neg) == ActionVal(self, pos) - ActionVal(self, neg)

(***************************************************************************)
(* Binding table.                                                          *)
(***************************************************************************)
\* mut_bind(input_code): creates the empty list when the code is absent
mut_bind(self, input_code) ==
  IF input_code \in DOMAIN self.binds THEN self
  ELSE [self EXCEPT !.binds = insert(self.binds, input_code, << >>)]

\* mut_bind(code).push(action), the statement new() runs for every bind
push_bind(self, input_code, action) ==
  LET s == mut_bind(self, input_code)
  IN  [s EXCEPT !.binds = insert(s.binds, input_code, Append(s.binds[input_code], action))]

(***************************************************************************)
(* update_val and modify_val.                                              *)
(***************************************************************************)
\* faulty variants of the edge rules; the properties of this module fail under them
jpressed_ignoring_record(is_pressed, was_pressing) == is_pressed

jreleased_copied_from_jpressed(is_pressed, was_pressing) == is_pressed /\ ~was_pressing

jreleased_when_idle(is_pressed, was_pressing) == ~is_pressed /\ ~was_pressing

\* faulty variant: the just-pressed flag is given the release condition
jpressed_on_release(is_pressed, was_pressing) == ~is_pressed /\ was_pressing

\* the edge flags of one pass, from the new level and the level of the record as it stands
jpressed(is_pressed, was_pressing) == is_pressed /\ ~was_pressing

jreleased(is_pressed, was_pressing) == ~is_pressed /\ was_pressing

\* faulty variant: the record keeps the larger of the old and the new intensity
update_action_max(self, action, val) ==
  LET new        == Max(ActionVal(self, action), val)
      is_pressed == new >= self.press_sensitivity
      was        == pressing(self, action)
  IN  [self EXCEPT !.action_val =
         insert(self.action_val, action,
                << new, jpressed(is_pressed, was), jreleased(is_pressed, was) >>)]

\* faulty variant: an edge flag, once raised, stays until init()
update_action_keeping_edges(self, action, val) ==
  LET is_pressed == val >= self.press_sensitivity
      was        == pressing(self, action)
  IN  [self EXCEPT !.action_val =
         insert(self.action_val, action,
                << val, jpressed(is_pressed, was) \/ pressed(self, action),
                        jreleased(is_pressed, was) \/ released(self, action) >>)]

\* body of the loop of update_val for one bound action
update_action(self, action, val) ==
  LET is_pressed == val >= self.press_sensitivity
      was        == pressing(self, action)
  IN  [self EXCEPT !.action_val =
         insert(self.action_val, action,
                << val, jpressed(is_pressed, was), jreleased(is_pressed, was) >>)]

RECURSIVE update_actions(_, _, _)
update_actions(self, list, val) ==
  IF list = << >> THEN self
  ELSE update_actions(update_action(self, Head(list), val), Tail(list), val)

\* faulty variant: every bound action is updated once, however often it is listed
RECURSIVE without_duplicates(_)
without_duplicates(list) ==
  IF list = << >> THEN << >>
  ELSE LET rest == without_duplicates(Tail(list))
       IN  IF Head(list) \in Range(rest) THEN rest ELSE << Head(list) >> \o rest

update_val_once_per_action(self, input_code, val) ==
  LET is_pressed == val >= self.press_sensitivity
      s == IF is_pressed THEN [self EXCEPT !.recently_pressed = Some(input_code)] ELSE self
  IN  IF input_code \in DOMAIN s.binds
      THEN update_actions(s, without_duplicates(s.binds[input_code]), val)
      ELSE s

\* faulty variant: the bind list is looked up with mut_bind, which creates it
update_val_creating_entry(self, input_code, val) ==
  LET is_pressed == val >= self.press_sensitivity
      s == IF is_pressed THEN [self EXCEPT !.recently_pressed = Some(input_code)] ELSE self
      t == mut_bind(s, input_code)
  IN  update_actions(t, t.binds[input_code], val)

update_val(self, input_code, val) ==
  LET is_pressed == val >= self.press_sensitivity
      s == IF is_pressed THEN [self EXCEPT !.recently_pressed = Some(input_code)] ELSE self
  IN  IF input_code \in DOMAIN s.binds
      THEN update_actions(s, s.binds[input_code], val)
      ELSE s

\* faulty variant: the event overwrites the intensity
accumulate_overwriting(v, amount) == amount

\* the closure of an accumulating event: |v| *v += amount
accumulate(v, amount) == v + amount

\* body of the loop of modify_val for one bound action
modify_action(self, input_code, action, amount) ==
  LET val        == accumulate(ActionVal(self, action), amount)
      is_pressed == val >= self.press_sensitivity
      was        == pressing(self, action)
      s == IF is_pressed THEN [self EXCEPT !.recently_pressed = Some(input_code)] ELSE self
  IN  [s EXCEPT !.action_val =
         insert(s.action_val, action,
                << val, jpressed(is_pressed, was), jreleased(is_pressed, was) >>)]

RECURSIVE modify_actions(_, _, _, _)
modify_actions(self, input_code, list, amount) ==
  IF list = << >> THEN self
  ELSE modify_actions(modify_action(self, input_code, Head(list), amount),
                      input_code, Tail(list), amount)

\* faulty variant: the bind list is looked up with mut_bind, which creates it
modify_val_creating_entry(self, input_code, amount) ==
  LET t == mut_bind(self, input_code)
  IN  modify_actions(t, input_code, t.binds[input_code], amount)

modify_val(self, input_code, amount) ==
  IF input_code \in DOMAIN self.binds
  THEN modify_actions(self, input_code, self.binds[input_code], amount)
  ELSE self

(***************************************************************************)
(* Event handlers.                                                         *)
(***************************************************************************)
\* state.is_pressed() as u8 as f32
is_pressed_val(down) == IF down THEN One ELSE 0

\* the text bookkeeping of update_keys
push_text(typed, text) ==
  IF typed # None /\ text # None THEN Some(typed[1] \o text[1]) ELSE text

update_keys(self, key, down, text) ==
  update_val([self EXCEPT !.text_typed = push_text(self.text_typed, text)],
             KeyCode(key), is_pressed_val(down))

update_buttons(self, button, down) ==
  update_val(self, MouseButton(button), is_pressed_val(down))

\* faulty variant: the halves receive the signed amount, unclamped
mouse_motion_signed(self, dx, dy) ==
  LET x  == dx * self.mouse_scale
      y  == dy * self.mouse_scale
      s1 == modify_val(self, MouseMoveX("Pos"), x)
      s2 == modify_val(s1,   MouseMoveX("Neg"), -x)
      s3 == modify_val(s2,   MouseMoveY("Pos"), y)
  IN  modify_val(s3, MouseMoveY("Neg"), -y)

\* DeviceEvent::MouseMotion { delta: (dx, dy) }
mouse_motion(self, dx, dy) ==
  LET x  == dx * self.mouse_scale
      y  == dy * self.mouse_scale
      s1 == modify_val(self, MouseMoveX("Pos"), Max(x, 0))
      s2 == modify_val(s1,   MouseMoveX("Neg"), Max(-x, 0))
      s3 == modify_val(s2,   MouseMoveY("Pos"), Max(y, 0))
  IN  modify_val(s3, MouseMoveY("Neg"), Max(-y, 0))

\* DeviceEvent::MouseWheel { delta }, line and pixel deltas alike
mouse_wheel(self, dx, dy) ==
  LET x  == dx * self.mouse_scale
      y  == dy * self.mouse_scale
      s1 == modify_val(self, MouseScroll("Pos"), Max(y, 0))
      s2 == modify_val(s1,   MouseScroll("Neg"), Max(-y, 0))
      s3 == modify_val(s2,   MouseScrollX("Pos"), Max(x, 0))
  IN  modify_val(s3, MouseScrollX("Neg"), Max(-x, 0))

\* update_gamepad, one operator per EventType
button_pressed(self, id, b) ==
  update_val(update_val(self, with_id(GamepadButton(b), id), One), GamepadButton(b), One)

button_released(self, id, b) ==
  update_val(update_val(self, with_id(GamepadButton(b), id), 0), GamepadButton(b), 0)

button_changed(self, id, b, v) ==
  update_val(update_val(self, GamepadButton(b), v), with_id(GamepadButton(b), id), v)

\* faulty variant: only the device-agnostic codes of the axis are updated
axis_changed_agnostic_only(self, id, b, v) ==
  update_val(update_val(self, gamepad_axis_pos(b), Max(v, 0)), gamepad_axis_neg(b), Max(-v, 0))

axis_changed(self, id, b, v) ==
  LET dir_pos   == Max(v, 0)
      dir_neg   == Max(-v, 0)
      input_pos == gamepad_axis_pos(b)
      input_neg == gamepad_axis_neg(b)
      s1 == update_val(self, input_pos, dir_pos)
      s2 == update_val(s1, input_neg, dir_neg)
      s3 == update_val(s2, with_id(input_pos, id), dir_pos)
  IN  update_val(s3, with_id(input_neg, id), dir_neg)

(***************************************************************************)
(* init(): the frame reset.                                                *)
(***************************************************************************)
RECURSIVE reset_codes(_, _)
reset_codes(self, codes) ==
  IF codes = << >> THEN self
  ELSE reset_codes(update_val(self, Head(codes), 0), Tail(codes))

\* faulty variants of the parts of init()
clear_edges_and_intensity(map) == [a \in DOMAIN map |-> << 0, FALSE, FALSE >>]

clear_transient_keeping_recent(self) == [self EXCEPT !.text_typed = None]

init_skipping_a_code(self) ==
  LET s == reset_codes(self, Tail(ResetCodes))
  IN  [s EXCEPT !.action_val = [a \in DOMAIN s.action_val |-> << s.action_val[a][1], FALSE, FALSE >>],
                !.recently_pressed = None, !.text_typed = None]

init_creating_records(self) ==
  LET s == reset_codes(self, ResetCodes)
  IN  [s EXCEPT !.action_val = [a \in Actions |-> << ActionVal(s, a), FALSE, FALSE >>],
                !.recently_pressed = None, !.text_typed = None]

\* action_val.iter_mut().for_each(|(_, i)| *i = (i.0, false, false))
clear_edges(map) == [a \in DOMAIN map |-> << map[a][1], FALSE, FALSE >>]

clear_transient(self) == [self EXCEPT !.recently_pressed = None, !.text_typed = None]

\* faulty variant: the edge flags are not cleared
init_keeping_edges(self) == clear_transient(reset_codes(self, ResetCodes))

init(self) ==
  LET s == reset_codes(self, ResetCodes)
  IN  clear_transient([s EXCEPT !.action_val = clear_edges(s.action_val)])

(***************************************************************************)
(* Construction.                                                           *)
(***************************************************************************)
\* press_sensitivity 0.5, mouse_scale 0.1 and scroll_scale 0.1, in tenths
DefaultPressSensitivity == 5

DefaultMouseScale == 1

DefaultScrollScale == 1

Default ==
  [ binds |-> << >>, action_val |-> << >>,
    recently_pressed |-> None, text_typed |-> None,
    mouse_scale |-> DefaultMouseScale, scroll_scale |-> DefaultScrollScale,
    press_sensitivity |-> DefaultPressSensitivity ]

RECURSIVE bind_all(_, _, _)
bind_all(self, action, codes) ==
  IF codes = << >> THEN self
  ELSE bind_all(push_bind(self, Head(codes), action), action, Tail(codes))

RECURSIVE new_from(_, _)
new_from(self, pairs) ==
  IF pairs = << >> THEN self
  ELSE new_from(bind_all(self, Head(pairs)[1], Head(pairs)[2]), Tail(pairs))

\* InputMap::new(&[(action, vec![codes])])
new(pairs) == new_from(Default, pairs)

(***************************************************************************)
(* Bounds and inputs of the model.                                         *)
(***************************************************************************)
\* accumulating events are delivered while every intensity stays within this many tenths
MaxIntensity == 6

\* keyboard text is delivered while the frame's text stays within this length
MaxText == 2

\* a bind is added to the running map while its code lists its action fewer times than this
MaxLateBinds == 1

\* the binds the application adds to the running map
LateBinds == { << MouseButton("Left"), "Forward" >> }

\* the codes whose bind list the application looks up with a bare mut_bind(code):
\* those it rebinds
LookedUp(late) == {b[1] : b \in late}

\* raw mouse-motion deltas (dx, dy) and scroll deltas (x, y)
MotionDeltas == { <<2, 0>>, <<3, 0>>, <<-3, 2>> }

WheelDeltas == { <<0, 3>>, <<-2, -2>> }

\* analog gamepad button values (0.3, 1.0) and axis values in [-1, 1]
ButtonValues == {3, One}

AxisValues == {-One, 3, One}

\* KeyEvent::text: the press of a character key carries its text,
\* a release and a modifier key carry none
EventText(key, down) == IF down /\ key = "KeyW" THEN Some(<<"w">>) ELSE None

\* a mouse_scale of 0.2 set by the application
ChangedMouseScale == 2 * DefaultMouseScale

\* a mouse_scale of -0.1 set by the application (an inverted mouse)
InvertedMouseScale == -DefaultMouseScale

\* what the application constructs the map with: the bind list of new() and the scales
Setup(pairs, ms, ss) == [pairs |-> pairs, mouse_scale |-> ms, scroll_scale |-> ss]

KeySetup ==
  Setup(<< <<"Forward", << KeyCode("KeyW") >> >>,
           <<"Back",    << KeyCode("ShiftLeft"), MouseButton("Left") >> >> >>,
        DefaultMouseScale, DefaultScrollScale)

DuplicateSetup ==
  Setup(<< <<"Forward", << KeyCode("KeyW"), KeyCode("KeyW") >> >>,
           <<"Jump",    << KeyCode("KeyW") >> >>,
           <<"Back",    << MouseMoveX("Pos"), MouseMoveX("Pos") >> >>,
           <<"Fire",    << MouseMoveX("Pos") >> >> >>,
        DefaultMouseScale, DefaultScrollScale)

MouseSetup ==
  Setup(<< <<"Forward", << MouseMoveX("Pos") >> >>,
           <<"Jump",    << KeyCode("KeyW"), MouseMoveY("Pos") >> >> >>,
        DefaultMouseScale, DefaultScrollScale)

ScaledMouseSetup ==
  Setup(<< <<"Forward", << MouseMoveX("Pos") >> >>,
           <<"Back",    << MouseMoveX("Neg") >> >> >>,
        ChangedMouseScale, DefaultScrollScale)

InvertedMouseSetup ==
  Setup(<< <<"Forward", << MouseMoveX("Pos") >> >>,
           <<"Back",    << MouseMoveX("Neg") >> >> >>,
        InvertedMouseScale, DefaultScrollScale)

ScrollSetup ==
  Setup(<< <<"Forward", << MouseScroll("Pos") >> >>,
           <<"Back",    << MouseScroll("Neg") >> >>,
           <<"Jump",    << MouseScrollX("Pos") >> >>,
           <<"Fire",    << MouseScrollX("Neg") >> >> >>,
        ChangedMouseScale, DefaultScrollScale)

PadButtonSetup ==
  Setup(<< <<"Forward", << GamepadButton("South") >> >>,
           <<"Back",    << with_id(GamepadButton("South"), "Pad0") >> >> >>,
        DefaultMouseScale, DefaultScrollScale)

PadAxisSetup ==
  Setup(<< <<"Forward", << gamepad_axis_pos("LeftStickX") >> >>,
           <<"Back",    << with_id(gamepad_axis_pos("LeftStickX"), "Pad0") >> >>,
           <<"Jump",    << with_id(gamepad_axis_neg("LeftStickX"), "Pad1") >> >> >>,
        DefaultMouseScale, DefaultScrollScale)

Setups ==
  { KeySetup, DuplicateSetup, MouseSetup, ScaledMouseSetup, InvertedMouseSetup,
    ScrollSetup, PadButtonSetup, PadAxisSetup }

\* the applications that offer rebinding at run time
Rebinding(setup) == IF setup \in {KeySetup, ScaledMouseSetup} THEN LateBinds ELSE {}

(***************************************************************************)
(* The state machine.                                                      *)
(***************************************************************************)
\* the record of an operation: an event with its parameters, init(), or a bind
Op(op, name, id, down, x, y, text) ==
  [op |-> op, name |-> name, id |-> id, down |-> down, x |-> x, y |-> y, text |-> text,
   bound |-> None]

BindOp(input_code, action) ==
  [Op("Bind", "None", "None", FALSE, 0, 0, None) EXCEPT !.bound = Some(<< input_code, action >>)]

MutBindOp(input_code) ==
  [Op("MutBind", "None", "None", FALSE, 0, 0, None) EXCEPT !.bound = Some(<< input_code >>)]

Becomes(s) ==
  /\ binds' = s.binds
  /\ action_val' = s.action_val
  /\ recently_pressed' = s.recently_pressed
  /\ text_typed' = s.text_typed
  /\ mouse_scale' = s.mouse_scale
  /\ scroll_scale' = s.scroll_scale
  /\ press_sensitivity' = s.press_sensitivity

Init ==
  \E setup \in Setups :
    LET s == new(setup.pairs) IN
      /\ binds = s.binds
      /\ action_val = s.action_val
      /\ recently_pressed = s.recently_pressed
      /\ text_typed = s.text_typed
      /\ mouse_scale = setup.mouse_scale
      /\ scroll_scale = setup.scroll_scale
      /\ press_sensitivity = s.press_sensitivity
      /\ last = Op("New", "None", "None", FALSE, 0, 0, None)
      /\ rebinds = Rebinding(setup)

WithinIntensity(self, s) ==
  \A a \in DOMAIN s.action_val :
    ActionVal(s, a) <= MaxIntensity \/ ActionVal(s, a) = ActionVal(self, a)

WithinText(s) == IF s.text_typed = None THEN TRUE ELSE Len(s.text_typed[1]) <= MaxText

\* WindowEvent::KeyboardInput
KeyboardInput ==
  \E key \in Keys, down \in BOOLEAN :
    /\ WithinText(update_keys(Self, key, down, EventText(key, down)))
    /\ Becomes(update_keys(Self, key, down, EventText(key, down)))
    /\ last' = Op("Key", key, "None", down, 0, 0, EventText(key, down))
    /\ UNCHANGED rebinds

\* WindowEvent::MouseInput
MouseInput ==
  \E button \in Buttons, down \in BOOLEAN :
    /\ Becomes(update_buttons(Self, button, down))
    /\ last' = Op("MouseButton", button, "None", down, 0, 0, None)
    /\ UNCHANGED rebinds

\* DeviceEvent::MouseMotion
MouseMotion ==
  \E d \in MotionDeltas :
    /\ WithinIntensity(Self, mouse_motion(Self, d[1], d[2]))
    /\ Becomes(mouse_motion(Self, d[1], d[2]))
    /\ last' = Op("MouseMotion", "None", "None", FALSE, d[1], d[2], None)
    /\ UNCHANGED rebinds

\* DeviceEvent::MouseWheel
MouseWheel ==
  \E d \in WheelDeltas :
    /\ WithinIntensity(Self, mouse_wheel(Self, d[1], d[2]))
    /\ Becomes(mouse_wheel(Self, d[1], d[2]))
    /\ last' = Op("MouseWheel", "None", "None", FALSE, d[1], d[2], None)
    /\ UNCHANGED rebinds

\* gilrs EventType::ButtonPressed
ButtonPressed ==
  \E id \in GamepadIds, b \in PadButtons :
    /\ Becomes(button_pressed(Self, id, b))
    /\ last' = Op("ButtonPressed", b, id, TRUE, One, 0, None)
    /\ UNCHANGED rebinds

\* gilrs EventType::ButtonReleased
ButtonReleased ==
  \E id \in GamepadIds, b \in PadButtons :
    /\ Becomes(button_released(Self, id, b))
    /\ last' = Op("ButtonReleased", b, id, FALSE, 0, 0, None)
    /\ UNCHANGED rebinds

\* gilrs EventType::ButtonChanged
ButtonChanged ==
  \E id \in GamepadIds, b \in PadButtons, v \in ButtonValues :
    /\ Becomes(button_changed(Self, id, b, v))
    /\ last' = Op("ButtonChanged", b, id, FALSE, v, 0, None)
    /\ UNCHANGED rebinds

\* gilrs EventType::AxisChanged
AxisChanged ==
  \E id \in GamepadIds, b \in PadAxes, v \in AxisValues :
    /\ Becomes(axis_changed(Self, id, b, v))
    /\ last' = Op("AxisChanged", b, id, FALSE, v, 0, None)
    /\ UNCHANGED rebinds

\* the application adds a bind to the running map: input.mut_bind(code).push(action)
Bind ==
  \E b \in rebinds :
    /\ Cardinality({i \in DOMAIN mut_bind(Self, b[1]).binds[b[1]] :
                      mut_bind(Self, b[1]).binds[b[1]][i] = b[2]}) < MaxLateBinds
    /\ Becomes(push_bind(Self, b[1], b[2]))
    /\ last' = BindOp(b[1], b[2])
    /\ UNCHANGED rebinds

\* the application reads the bind list of a code: input.mut_bind(code)
MutBind ==
  \E c \in LookedUp(rebinds) :
    /\ Becomes(mut_bind(Self, c))
    /\ last' = MutBindOp(c)
    /\ UNCHANGED rebinds

\* the application calls init() at the end of a frame
InitCall ==
  /\ Becomes(init(Self))
  /\ last' = Op("Init", "None", "None", FALSE, 0, 0, None)
  /\ UNCHANGED rebinds

Next ==
  \/ KeyboardInput
  \/ MouseInput
  \/ MouseMotion
  \/ MouseWheel
  \/ ButtonPressed
  \/ ButtonReleased
  \/ ButtonChanged
  \/ AxisChanged
  \/ Bind
  \/ MutBind
  \/ InitCall

Spec == Init /\ [][Next]_vars

(***************************************************************************)
(* Vocabulary of the properties.                                           *)
(***************************************************************************)
\* how many times `action` occurs in the bind list of `code`
Occurrences(action, code) ==
  IF code \in DOMAIN binds
  THEN Cardinality({i \in DOMAIN binds[code] : binds[code][i] = action})
  ELSE 0

BoundTo(action, code) ==
  code \in DOMAIN binds /\ \E i \in DOMAIN binds[code] : binds[code][i] = action

BoundOnce(action, code) == Occurrences(action, code) = 1

\* the codes whose bind list contains `action`
CodesOf(action) == {c \in DOMAIN binds : BoundTo(action, c)}

\* the operation `op` is one discrete update Set(SetCode(op), SetVal(op)):
\* a key event or a mouse button event
IsDiscrete(op) == op.op \in {"Key", "MouseButton"}

SetCode(op) == IF op.op = "Key" THEN KeyCode(op.name) ELSE MouseButton(op.name)

SetVal(op) == is_pressed_val(op.down)

Record(action) == action_val[action]

(***************************************************************************)
(* C1: for an action bound exactly once to code c, with press_sensitivity  *)
(* at its default, a Set(c, 1.0) delivered while the action is not         *)
(* pressing leaves it pressing, just-pressed and not just-released; a      *)
(* Set(c, 1.0) that immediately follows a Set(c, 1.0) leaves intensity 1.0 *)
(* and pressing, but not just-pressed.                                     *)
(***************************************************************************)
C1_Step ==
  (IsDiscrete(last') /\ SetVal(last') = One /\ press_sensitivity = DefaultPressSensitivity) =>
    \A a \in Actions :
      BoundOnce(a, SetCode(last')) =>
        /\ ~pressing(Self, a) =>
             (pressing(Self', a) /\ pressed(Self', a) /\ ~released(Self', a))
        /\ last = last' =>
             (ActionVal(Self', a) = One /\ pressing(Self', a) /\ ~pressed(Self', a))

\* C1: every step obeys the edge rule of a discrete Set(c, 1.0)
C1_EdgeRule == [][C1_Step]_vars

\* a Set(c, 1.0) has just pressed an action bound once to c
C1_Witness ==
  \E a \in Actions :
    /\ IsDiscrete(last) /\ SetVal(last) = One /\ BoundOnce(a, SetCode(last))
    /\ a \in DOMAIN action_val /\ Record(a) = << One, TRUE, FALSE >>

(***************************************************************************)
(* C2 as stated: for an action bound to code c (any number of times) that  *)
(* is pressing, Set(c, 0.0) leaves just-released true and intensity 0.0,   *)
(* and a following init() clears just-released and leaves the intensity    *)
(* at 0.0.                                                                 *)
(***************************************************************************)
C2_Release(a) ==
  pressing(Self, a) => (released(Self', a) /\ ActionVal(Self', a) = 0)

C2_Reset(a) ==
  released(Self, a) => (~released(Self', a) /\ ActionVal(Self', a) = 0)

C2_AsStatedStep ==
  /\ (IsDiscrete(last') /\ SetVal(last') = 0) =>
       \A a \in Actions : BoundTo(a, SetCode(last')) => C2_Release(a)
  /\ (IsDiscrete(last) /\ SetVal(last) = 0 /\ last'.op = "Init") =>
       \A a \in Actions : BoundTo(a, SetCode(last)) => C2_Reset(a)

\* C2 as stated, for any number of bindings to c
C2_AsStated == [][C2_AsStatedStep]_vars

(***************************************************************************)
(* C2, amended: for an action bound exactly once to code c that is         *)
(* pressing, Set(c, 0.0) leaves just-released true and intensity 0.0, and  *)
(* a following init() clears just-released and leaves the intensity at     *)
(* 0.0.                                                                    *)
(***************************************************************************)
C2_Step ==
  /\ (IsDiscrete(last') /\ SetVal(last') = 0) =>
       \A a \in Actions : BoundOnce(a, SetCode(last')) => C2_Release(a)
  /\ (IsDiscrete(last) /\ SetVal(last) = 0 /\ last'.op = "Init") =>
       \A a \in Actions : BoundOnce(a, SetCode(last)) => C2_Reset(a)

\* C2, amended: release edge and reset of an action bound exactly once to c
C2_ReleaseEdge == [][C2_Step]_vars

\* a Set(c, 0.0) has just released an action bound once to c
C2_Witness ==
  \E a \in Actions :
    /\ IsDiscrete(last) /\ SetVal(last) = 0 /\ BoundOnce(a, SetCode(last))
    /\ a \in DOMAIN action_val /\ Record(a) = << 0, FALSE, TRUE >>

(***************************************************************************)
(* C3: no action record ever has just-pressed and just-released both true. *)
(***************************************************************************)
C3_EdgesExclusive == \A a \in DOMAIN action_val : ~(Record(a)[2] /\ Record(a)[3])

\* both kinds of edge occur: one record just pressed while another is just released
C3_Witness ==
  \E a, b \in DOMAIN action_val : Record(a)[2] /\ Record(b)[3]

(***************************************************************************)
(* C4 as stated: init() leaves the intensity of every action that has a    *)
(* key, mouse-button or gamepad code bound to it as it was, so that an     *)
(* action pressing before init() is pressing after it.                     *)
(***************************************************************************)
HeldKinds == {"Key", "MouseButton", "GamepadButton", "GamepadAxis"}

HasHeldCode(a) == \E c \in CodesOf(a) : c.kind \in HeldKinds

HasAccumCode(a) == CodesOf(a) \cap AccumCodes # {}

C4_Preserved(a) ==
  /\ ActionVal(Self', a) = ActionVal(Self, a)
  /\ pressing(Self, a) => pressing(Self', a)

\* C4 as stated: init() preserves every action that has a held code
C4_AsStated ==
  [][last'.op = "Init" => \A a \in Actions : HasHeldCode(a) => C4_Preserved(a)]_vars

(***************************************************************************)
(* C4, amended: init() leaves the intensity of every action that has a     *)
(* key, mouse-button or gamepad code bound to it, and none of the eight    *)
(* accumulating half-axis codes, as it was; such an action pressing before *)
(* init() is pressing after it.                                            *)
(***************************************************************************)
\* C4, amended: init() preserves the actions with a held code and no half-axis code
C4_InitPreservesHeld ==
  [][last'.op = "Init" =>
       \A a \in Actions : (HasHeldCode(a) /\ ~HasAccumCode(a)) => C4_Preserved(a)]_vars

\* an action held by a key, button or gamepad code is still pressing after init()
C4_Witness ==
  /\ last.op = "Init"
  /\ \E a \in Actions : HasHeldCode(a) /\ ~HasAccumCode(a) /\ pressing(Self, a)

(***************************************************************************)
(* C5: immediately after init() no action is just-pressed or               *)
(* just-released, recently_pressed is None and text_typed is None.         *)
(***************************************************************************)
C5_InitClears ==
  last.op = "Init" =>
    /\ \A a \in Actions : ~pressed(Self, a) /\ ~released(Self, a)
    /\ recently_pressed = None
    /\ text_typed = None

\* init() has run on a map that holds records of both pressing and idle actions
C5_Witness ==
  /\ last.op = "Init"
  /\ \E a, b \in DOMAIN action_val : pressing(Self, a) /\ ~pressing(Self, b)

(***************************************************************************)
(* C6 as stated: an action bound twice to a code, and to nothing else,     *)
(* always has the record of an action bound once to that code, and to      *)
(* nothing else.                                                           *)
(***************************************************************************)
OnlyBound(a, c, n) == Occurrences(a, c) = n /\ CodesOf(a) = {c}

RecordOf(a) == IF a \in DOMAIN action_val THEN Some(Record(a)) ELSE None

C6_AsStated ==
  \A c \in DOMAIN binds : \A a, b \in Actions :
    (OnlyBound(a, c, 2) /\ OnlyBound(b, c, 1)) => RecordOf(a) = RecordOf(b)

(***************************************************************************)
(* C6, amended: binding an action twice to a code is not idempotent.  A    *)
(* Set(c, v) leaves an action bound twice to c (and to nothing else) with  *)
(* intensity v, as for a single binding, but with just-pressed and         *)
(* just-released both false; a mouse-motion event adds its amount twice to *)
(* an action bound twice to a mouse-motion half-axis code.                 *)
(***************************************************************************)
\* the amount a mouse-motion event adds through the half-axis code c
MotionAmount(op, c) ==
  LET d == IF c.kind = "MouseMoveX" THEN op.x ELSE op.y
      v == d * mouse_scale
  IN  IF c.sign = "Pos" THEN Max(v, 0) ELSE Max(-v, 0)

MotionCodes == {MouseMoveX(sg) : sg \in Signs} \cup {MouseMoveY(sg) : sg \in Signs}

C6_Step ==
  /\ IsDiscrete(last') =>
       \A a \in Actions :
         OnlyBound(a, SetCode(last'), 2) =>
           (a \in DOMAIN action_val' /\ action_val'[a] = << SetVal(last'), FALSE, FALSE >>)
  /\ last'.op = "MouseMotion" =>
       \A c \in MotionCodes : \A a \in Actions :
         OnlyBound(a, c, 2) =>
           ActionVal(Self', a) = ActionVal(Self, a) + 2 * MotionAmount(last', c)

\* C6, amended: a double binding drops the edges of a Set and doubles a motion amount
C6_DuplicateBinding == [][C6_Step]_vars

\* one Set(c, 1.0): the action bound once is just-pressed, the one bound twice is not
C6_Witness ==
  \E c \in DOMAIN binds : \E a, b \in DOMAIN action_val :
    /\ OnlyBound(a, c, 2) /\ OnlyBound(b, c, 1)
    /\ IsDiscrete(last) /\ SetCode(last) = c
    /\ Record(a) = << One, FALSE, FALSE >> /\ Record(b) = << One, TRUE, FALSE >>

(***************************************************************************)
(* C7 as stated: the intensity of an action bound only to the positive     *)
(* half of mouse-X motion is the sum of max(delta_x * mouse_scale, 0) over *)
(* the mouse-motion events since the last init(): it is 0 after init(),    *)
(* every mouse-motion event adds its amount, nothing else changes it.      *)
(***************************************************************************)
C7_Sums(a) ==
  CASE last'.op = "MouseMotion" ->
         ActionVal(Self', a) = ActionVal(Self, a) + Max(last'.x * mouse_scale, 0)
    [] last'.op = "Init" -> ActionVal(Self', a) = 0
    [] OTHER -> ActionVal(Self', a) = ActionVal(Self, a)

\* C7 as stated, for any number of bindings to the positive half of mouse-X motion
C7_AsStated ==
  [][\A a \in Actions : CodesOf(a) = {MouseMoveX("Pos")} => C7_Sums(a)]_vars

(***************************************************************************)
(* C7, amended: the same for an action bound exactly once to the positive  *)
(* half of mouse-X motion and to no other code.                            *)
(***************************************************************************)
\* C7, amended: the frame sum of an action bound exactly once to it
C7_FrameSum ==
  [][\A a \in Actions : OnlyBound(a, MouseMoveX("Pos"), 1) => C7_Sums(a)]_vars

\* deltas +2.0 and +3.0 at mouse_scale 0.1 have summed to 0.5
C7_Witness ==
  \E a \in Actions :
    /\ OnlyBound(a, MouseMoveX("Pos"), 1) /\ mouse_scale = DefaultMouseScale
    /\ last.op = "MouseMotion" /\ last.x = 3
    /\ ActionVal(Self, a) = 5 /\ pressed(Self, a)

(***************************************************************************)
(* C8: immediately after init() every action bound to at least one of the  *)
(* eight accumulating half-axis codes has intensity 0.                     *)
(***************************************************************************)
C8_InitZeroesAxes ==
  last.op = "Init" => \A a \in Actions : HasAccumCode(a) => ActionVal(Self, a) = 0

\* init() has left the record of an action bound to a half-axis code and to a key at 0
C8_Witness ==
  /\ last.op = "Init"
  /\ \E a \in DOMAIN action_val :
       HasAccumCode(a) /\ HasHeldCode(a) /\ Record(a) = << 0, FALSE, FALSE >>

(***************************************************************************)
(* C9: when an action is bound to two distinct codes A and B, Set(A, 1.0)  *)
(* immediately followed by Set(B, 0.0) leaves its intensity at 0.0.        *)
(***************************************************************************)
C9_Step ==
  ( /\ IsDiscrete(last) /\ SetVal(last) = One
    /\ IsDiscrete(last') /\ SetVal(last') = 0
    /\ SetCode(last) # SetCode(last') ) =>
    \A a \in Actions :
      (BoundTo(a, SetCode(last)) /\ BoundTo(a, SetCode(last'))) => ActionVal(Self', a) = 0

\* C9: Set(A, 1.0) then Set(B, 0.0) leaves intensity 0.0
C9_LastWriteWins == [][C9_Step]_vars

\* Set(B, 0.0) has released an action bound to A and to B while B itself was never pressed
C9_Witness ==
  \E a \in DOMAIN action_val :
    /\ IsDiscrete(last) /\ SetVal(last) = 0 /\ BoundTo(a, SetCode(last))
    /\ \E c \in CodesOf(a) : c # SetCode(last) /\ recently_pressed = Some(c)
    /\ Record(a) = << 0, FALSE, TRUE >>

(***************************************************************************)
(* C10: an action bound to no code never has a record: action_val is 0,    *)
(* pressing, pressed and released are false, and axis over two such        *)
(* actions is 0.                                                           *)
(***************************************************************************)
Unbound(a) == CodesOf(a) = {}

C10_UnboundNeutral ==
  \A a \in Actions :
    Unbound(a) =>
      /\ a \notin DOMAIN action_val
      /\ ActionVal(Self, a) = 0
      /\ ~pressing(Self, a) /\ ~pressed(Self, a) /\ ~released(Self, a)
      /\ \A b \in Actions : Unbound(b) => axis(Self, a, b) = 0

\* two actions are unbound while events have pressed bound actions and init() has run
C10_Witness ==
  /\ \E a, b \in Actions : a # b /\ Unbound(a) /\ Unbound(b)
  /\ last.op = "Init"
  /\ \E a \in DOMAIN action_val : pressing(Self, a)

(***************************************************************************)
(* C11 as stated: text_typed is the concatenation, in delivery order, of   *)
(* the text of the keyboard events since the last init(): None after       *)
(* init(), every keyboard event appends its text, an event without text    *)
(* and every other event leave it as it was.                               *)
(***************************************************************************)
TextOf(t) == IF t = None THEN << >> ELSE t[1]

AsOption(chars) == IF chars = << >> THEN None ELSE Some(chars)

C11_Step ==
  CASE last'.op = "Key"  -> text_typed' = AsOption(TextOf(text_typed) \o TextOf(last'.text))
    [] last'.op = "Init" -> text_typed' = None
    [] OTHER             -> text_typed' = text_typed

\* C11: text_typed accumulates the text of every keyboard event since the last init()
C11_AsStated == [][C11_Step]_vars

(***************************************************************************)
(* C12 as stated: after new() and after any sequence of binds, of          *)
(* mut_bind calls and of events, every code present as a key of the        *)
(* binding table maps to a non-empty action list.                          *)
(***************************************************************************)
EmptyKeys(table) == {c \in DOMAIN table : table[c] = << >>}

\* C12 as stated: no key of the binding table maps to an empty list
C12_AsStated == EmptyKeys(binds) = {}

(***************************************************************************)
(* C12, amended: after new() every key of the binding table maps to a      *)
(* non-empty action list, and neither mut_bind(code).push(action) nor any  *)
(* event nor init() adds a key with an empty list; a bare mut_bind(code)   *)
(* on an absent code adds the key with an empty list.                      *)
(***************************************************************************)
C12_Step ==
  IF last'.op = "MutBind"
  THEN binds' = mut_bind(Self, last'.bound[1][1]).binds
  ELSE EmptyKeys(binds') \subseteq EmptyKeys(binds)

\* C12, amended: only a bare mut_bind(code) leaves a key with an empty list
C12_NonEmptyLists == (last.op = "New" => EmptyKeys(binds) = {}) /\ [][C12_Step]_vars

\* a bind was pushed to a running map that has taken events, and no list is empty
C12_Witness ==
  /\ last.op = "Bind" /\ EmptyKeys(binds) = {}
  /\ \E a \in DOMAIN action_val : pressing(Self, a)

(***************************************************************************)
(* The updates of one event, in the order its handler applies them: each   *)
(* is a Set (update_val) or an Accumulate (modify_val) of one code.        *)
(***************************************************************************)
Set(code, val) == [acc |-> FALSE, code |-> code, val |-> val]

Accumulate(code, amount) == [acc |-> TRUE, code |-> code, val |-> amount]

Updates(self, op) ==
  CASE op.op = "Key" -> << Set(KeyCode(op.name), is_pressed_val(op.down)) >>
    [] op.op = "MouseButton" -> << Set(MouseButton(op.name), is_pressed_val(op.down)) >>
    [] op.op = "MouseMotion" ->
         << Accumulate(MouseMoveX("Pos"), Max(op.x * self.mouse_scale, 0)),
            Accumulate(MouseMoveX("Neg"), Max(-(op.x * self.mouse_scale), 0)),
            Accumulate(MouseMoveY("Pos"), Max(op.y * self.mouse_scale, 0)),
            Accumulate(MouseMoveY("Neg"), Max(-(op.y * self.mouse_scale), 0)) >>
    [] op.op = "MouseWheel" ->
         << Accumulate(MouseScroll("Pos"),  Max(op.y * self.mouse_scale, 0)),
            Accumulate(MouseScroll("Neg"),  Max(-(op.y * self.mouse_scale), 0)),
            Accumulate(MouseScrollX("Pos"), Max(op.x * self.mouse_scale, 0)),
            Accumulate(MouseScrollX("Neg"), Max(-(op.x * self.mouse_scale), 0)) >>
    [] op.op \in {"ButtonPressed", "ButtonReleased"} ->
         << Set(with_id(GamepadButton(op.name), op.id), op.x),
            Set(GamepadButton(op.name), op.x) >>
    [] op.op = "ButtonChanged" ->
         << Set(GamepadButton(op.name), op.x),
            Set(with_id(GamepadButton(op.name), op.id), op.x) >>
    [] op.op = "AxisChanged" ->
         << Set(gamepad_axis_pos(op.name), Max(op.x, 0)),
            Set(gamepad_axis_neg(op.name), Max(-op.x, 0)),
            Set(with_id(gamepad_axis_pos(op.name), op.id), Max(op.x, 0)),
            Set(with_id(gamepad_axis_neg(op.name), op.id), Max(-op.x, 0)) >>
    [] OTHER -> << >>

IsEvent(op) == op.op \notin {"New", "Bind", "MutBind", "Init"}

Apply(self, u) ==
  IF u.acc THEN modify_val(self, u.code, u.val) ELSE update_val(self, u.code, u.val)

RECURSIVE ApplyAll(_, _)
ApplyAll(self, updates) ==
  IF updates = << >> THEN self ELSE ApplyAll(Apply(self, Head(updates)), Tail(updates))

\* every event is the sequence of its updates (a keyboard event also records its text)
EventsAreUpdates ==
  [][IsEvent(last') =>
       [Self' EXCEPT !.text_typed = None] =
         [ApplyAll(Self, Updates(Self, last')) EXCEPT !.text_typed = None]]_vars

(***************************************************************************)
(* C13 as stated: whenever the update of code c, a Set or an Accumulate,   *)
(* yields an intensity >= press_sensitivity, recently_pressed is c         *)
(* immediately afterwards, also when no action is bound to c; any other    *)
(* update, and a bind, leave recently_pressed as it was.                   *)
(***************************************************************************)
\* the actions in the bind list of code c of the map self
Listed(self, c) == IF c \in DOMAIN self.binds THEN Range(self.binds[c]) ELSE {}

\* update u, which took the map from self to s, yielded a pressed intensity:
\* the value of a Set; for an Accumulate the intensity it left in a bound action,
\* or 0.0 plus the amount when no action is bound
YieldsPressed(self, u, s) ==
  IF ~u.acc THEN u.val >= self.press_sensitivity
  ELSE IF Listed(self, u.code) = {} THEN u.val >= self.press_sensitivity
  ELSE \E a \in Listed(self, u.code) : ActionVal(s, a) >= self.press_sensitivity

C13_Update(self, u) ==
  LET s == Apply(self, u)
  IN  IF YieldsPressed(self, u, s)
      THEN s.recently_pressed = Some(u.code)
      ELSE s.recently_pressed = self.recently_pressed

RECURSIVE C13_Updates(_, _)
C13_Updates(self, updates) ==
  IF updates = << >> THEN TRUE
  ELSE C13_Update(self, Head(updates)) /\ C13_Updates(Apply(self, Head(updates)), Tail(updates))

C13_Step ==
  CASE IsEvent(last') -> C13_Updates(Self, Updates(Self, last'))
    [] last'.op = "Init" -> recently_pressed' = None
    [] OTHER -> recently_pressed' = recently_pressed

\* C13: a pressed update of c leaves recently_pressed = c, bound or not
C13_AsStated == [][C13_Step]_vars

(***************************************************************************)
(* C14 as stated: a scroll event with delta (x, y) adds                    *)
(* max(y * scroll_scale, 0) and max(-y * scroll_scale, 0) to the actions   *)
(* bound to the positive and negative halves of vertical scroll, and       *)
(* max(x * scroll_scale, 0) and max(-x * scroll_scale, 0) to those of      *)
(* horizontal scroll, whatever mouse_scale is.                             *)
(***************************************************************************)
ScrollCodes == {MouseScroll(sg) : sg \in Signs} \cup {MouseScrollX(sg) : sg \in Signs}

\* the amount the claim has a scroll event add through the half-axis code c
ScrollAmount(op, c) ==
  LET d == IF c.kind = "MouseScroll" THEN op.y ELSE op.x
      v == d * scroll_scale
  IN  IF c.sign = "Pos" THEN Max(v, 0) ELSE Max(-v, 0)

C14_Step ==
  last'.op = "MouseWheel" =>
    \A c \in ScrollCodes : \A a \in Actions :
      OnlyBound(a, c, 1) =>
        ActionVal(Self', a) = ActionVal(Self, a) + ScrollAmount(last', c)

\* C14: the amount a scroll event adds is scaled by scroll_scale
C14_AsStated == [][C14_Step]_vars

(***************************************************************************)
(* C15 as stated: a gamepad event from device d sets the device-agnostic   *)
(* code and the d-scoped code of its button or axis half to the same       *)
(* value, so an action bound only to the one ends with the same record as  *)
(* an action bound only to the other; an action bound only to the code of  *)
(* another device keeps its record.                                        *)
(***************************************************************************)
IsPadEvent(op) == op.op \in {"ButtonPressed", "ButtonReleased", "ButtonChanged", "AxisChanged"}

\* the Sets of a gamepad event that address the device-agnostic codes
AgnosticSets(op) == {u \in Range(Updates(Self, op)) : u.code.id = "Any"}

C15_OtherDevices(op) ==
  \A u \in AgnosticSets(op) : \A e \in GamepadIds \ {op.id} : \A a \in Actions :
    OnlyBound(a, with_id(u.code, e), 1) => RecordOf(a)' = RecordOf(a)

C15_AsStatedStep ==
  IsPadEvent(last') =>
    /\ \A u \in AgnosticSets(last') : \A a, b \in Actions :
         (OnlyBound(a, u.code, 1) /\ OnlyBound(b, with_id(u.code, last'.id), 1)) =>
           RecordOf(a)' = RecordOf(b)'
    /\ C15_OtherDevices(last')

\* C15 as stated: both forms end with the same record
C15_AsStated == [][C15_AsStatedStep]_vars

(***************************************************************************)
(* C15, amended: a gamepad event from device d sets the device-agnostic    *)
(* code and the d-scoped code of its button or axis half to the same       *)
(* value, so an action bound only to the one ends with the same intensity  *)
(* as an action bound only to the other, and with the same edge flags when *)
(* the two were both pressing or both not pressing before the event; an    *)
(* action bound only to the code of another device keeps its record.       *)
(***************************************************************************)
C15_Step ==
  IsPadEvent(last') =>
    /\ \A u \in AgnosticSets(last') : \A a, b \in Actions :
         (OnlyBound(a, u.code, 1) /\ OnlyBound(b, with_id(u.code, last'.id), 1)) =>
           /\ RecordOf(a)' # None /\ RecordOf(b)' # None
           /\ ActionVal(Self', a) = u.val /\ ActionVal(Self', b) = u.val
           /\ (pressing(Self, a) <=> pressing(Self, b)) => RecordOf(a)' = RecordOf(b)'
    /\ C15_OtherDevices(last')

\* C15, amended: both forms end with the same intensity
C15_BothForms == [][C15_Step]_vars

\* an axis event of Pad0 has just pressed the action of the agnostic code and that of
\* the Pad0 code alike, while the action of the Pad1 code stays pressing
C15_Witness ==
  /\ last.op = "AxisChanged" /\ last.id = "Pad0"
  /\ \E a, b, j \in DOMAIN action_val :
       /\ OnlyBound(a, gamepad_axis_pos(last.name), 1)
       /\ OnlyBound(b, with_id(gamepad_axis_pos(last.name), "Pad0"), 1)
       /\ OnlyBound(j, with_id(gamepad_axis_neg(last.name), "Pad1"), 1)
       /\ Record(a) = << One, TRUE, FALSE >> /\ Record(b) = Record(a)
       /\ pressing(Self, j)

(***************************************************************************)
(* C16: an update of code c changes or creates records only for the        *)
(* actions in the bind list of c and leaves every other record as it was;  *)
(* when c is absent from the binding table it changes and creates no       *)
(* record; no update adds a key to the binding table.  Stated for every    *)
(* event, over the codes its updates address.                              *)
(***************************************************************************)
\* the actions in the bind lists of the codes the event's updates address
Touched(op) == UNION {Listed(Self, u.code) : u \in Range(Updates(Self, op))}

C16_Step ==
  IsEvent(last') =>
    /\ binds' = binds
    /\ DOMAIN action_val' = DOMAIN action_val \cup Touched(last')
    /\ \A a \in DOMAIN action_val \ Touched(last') : action_val'[a] = action_val[a]

\* C16: an event changes and creates records only for the actions bound to its codes
C16_TargetsOnlyItsCode == [][C16_Step]_vars

\* a pressed Set of a code absent from the binding table has left the records alone
C16_Witness ==
  /\ IsDiscrete(last) /\ SetCode(last) \notin DOMAIN binds
  /\ recently_pressed = Some(SetCode(last))
  /\ \E a \in DOMAIN action_val : pressing(Self, a)

(***************************************************************************)
(* C17: in every reachable state the intensity of every action record is   *)
(* >= 0, for signed mouse-motion and scroll deltas, signed gamepad axis    *)
(* values, gamepad button values, and a mouse_scale of either sign.        *)
(***************************************************************************)
C17_NonNegative == \A a \in DOMAIN action_val : Record(a)[1] >= 0

\* a negative delta under a negative mouse_scale has pressed the positive half
\* of mouse-X motion and left the negative half at 0
C17_Witness ==
  /\ last.op = "MouseMotion" /\ last.x < 0 /\ mouse_scale < 0
  /\ \E a, b \in DOMAIN action_val :
       /\ BoundTo(a, MouseMoveX("Pos")) /\ BoundTo(b, MouseMoveX("Neg"))
       /\ Record(a)[1] > 0 /\ Record(b)[1] = 0

(***************************************************************************)
(* C18: edges are computed against the record as it stood before each      *)
(* update.  For an action bound once to code c that Set(c, 1.0) has just   *)
(* pressed, a Set(c, 0.0) that follows with no init() in between leaves    *)
(* the record (0.0, just-pressed = false, just-released = true).           *)
(***************************************************************************)
C18_Step ==
  ( /\ IsDiscrete(last) /\ SetVal(last) = One
    /\ IsDiscrete(last') /\ SetVal(last') = 0
    /\ SetCode(last') = SetCode(last) ) =>
    \A a \in Actions :
      (BoundOnce(a, SetCode(last)) /\ pressed(Self, a)) =>
        RecordOf(a)' = Some(<< 0, FALSE, TRUE >>)

\* C18: press and release within one frame leave only the release edge
C18_LastEdgeSurvives == [][C18_Step]_vars

\* a key was pressed and released with no init() in between: the action bound once
\* to it is just-released and not just-pressed
C18_Witness ==
  \E a \in DOMAIN action_val :
    /\ last.op = "Key" /\ ~last.down /\ BoundOnce(a, SetCode(last))
    /\ recently_pressed = Some(SetCode(last))
    /\ Record(a) = << 0, FALSE, TRUE >>

(***************************************************************************)
(* C19: with press_sensitivity constant, in every reachable state          *)
(* pressed(a) implies pressing(a) and released(a) implies not pressing(a), *)
(* for every action a.                                                     *)
(***************************************************************************)
C19_EdgesFollowLevel ==
  \A a \in Actions :
    /\ pressed(Self, a) => pressing(Self, a)
    /\ released(Self, a) => ~pressing(Self, a)

\* an analog value below press_sensitivity has released one action while
\* another action is just-pressed
C19_Witness ==
  \E a, b \in DOMAIN action_val :
    /\ Record(a)[3] /\ Record(a)[1] > 0 /\ Record(a)[1] < press_sensitivity
    /\ Record(b)[2] /\ Record(b)[1] >= press_sensitivity

(***************************************************************************)
(* C20: for an action bound only to mouse-motion and scroll half-axis      *)
(* codes, the intensity never decreases between two consecutive init()     *)
(* calls, and released(a) is false after every event and after every       *)
(* init().                                                                 *)
(***************************************************************************)
AccumOnly(a) == CodesOf(a) # {} /\ CodesOf(a) \subseteq AccumCodes

C20_NeverReleased == \A a \in Actions : AccumOnly(a) => ~released(Self, a)

C20_Grows ==
  last'.op # "Init" =>
    \A a \in Actions : AccumOnly(a) => ActionVal(Self', a) >= ActionVal(Self, a)

\* C20: an accumulate-only action grows within a frame and is never reported released
C20_AccumulateOnly == []C20_NeverReleased /\ [][C20_Grows]_vars

\* a motion event has found an accumulate-only action pressing and left it pressing
C20_Witness ==
  /\ last.op = "MouseMotion"
  /\ \E a \in DOMAIN action_val :
       AccumOnly(a) /\ pressing(Self, a) /\ ~pressed(Self, a) /\ ~released(Self, a)

====
